---- MODULE Spec2Model ----
(***************************************************************************)
(* SQL explanation pipeline of wren-ai-service                             *)
(* (src/pipelines/generation/sql_explanation.py): the flattening of the    *)
(* SQL analysis into explanation units, the prompt requests, the           *)
(* concurrent dispatch to the language model and the reconciliation of     *)
(* the replies.                                                            *)
(*                                                                         *)
(* Python values are modelled as follows.  A dict is a record (a function  *)
(* on its keys), the empty dict is the function with the empty domain.  A  *)
(* list is a sequence.  A piece of SQL or prompt text is a sequence of     *)
(* atoms (words, the space " ", punctuation), so that string formatting    *)
(* and repr() are concatenations of atoms.  An id is a string.  The list    *)
(* cte_names can come to hold dicts next to strs; Python compares a str    *)
(* and a dict as unequal, so its str elements are boxed as [str |-> s],    *)
(* which keeps the elements of the list comparable.                        *)
(***************************************************************************)
EXTENDS Integers, Sequences, FiniteSets, TLC

VARIABLES
    sql_analysis_results,               \* input: list of analysis fragments
    cte_names,                          \* input: list of CTE names (a Python list object)
    selected_data_sources,              \* input: list of lists of data sources
    preprocessed_sql_analysis_results,  \* output of preprocess: list of bundles
    visited,                            \* per fragment: ids of the relation nodes _collect_relations was called on
    prompts,                            \* output of prompts: list of requests
    tasks,                              \* the language-model calls of generate_sql_explanation
    gather,                             \* the state of asyncio.gather's future
    generate_sql_explanation,           \* output of generate_sql_explanation: list of replies
    post_process,                       \* output of post_process: list of records
    pc                                  \* the pipeline node that runs next

flatten_vars == <<sql_analysis_results, cte_names, selected_data_sources,
                  preprocessed_sql_analysis_results, visited>>

dispatch_vars == <<prompts, tasks, gather, generate_sql_explanation>>

vars == <<flatten_vars, dispatch_vars, post_process, pc>>

----------------------------------------------------------------------------
(* Bounds of the model *)

MaxFilterOps == 2
MaxJoins == 3
MaxSelectItems == 2
MaxReplies == 3
MaxFragments == 2
MaxCalls == 3
MaxFlattenFragments == 3

----------------------------------------------------------------------------
(* Python helpers *)

EmptyDict == [k \in {} |-> k]

\* d.get(k, default)
Get(d, k, default) == IF k \in DOMAIN d THEN d[k] ELSE default

\* x in list
In(x, list) == \E i \in DOMAIN list : list[i] = x

\* a str held in a list that can also hold dicts
PyStr(s) == [str |-> s]

RECURSIVE Flatten(_)
Flatten(seqs) == IF seqs = <<>> THEN <<>> ELSE Head(seqs) \o Flatten(Tail(seqs))

\* the text of an id
IdText(id) == IF id = "" THEN <<>> ELSE <<id>>

\* repr() of a str: double quotes when the text holds ' and no ", else single
\* quotes with ' and \ escaped
PyReprStr(text) ==
    LET hasSingle == In("'", text)
        hasDouble == In("\"", text)
        escaped == Flatten([i \in DOMAIN text |->
                        IF text[i] = "\\" THEN <<"\\", "\\">>
                        ELSE IF text[i] = "'" /\ ~(hasSingle /\ ~hasDouble) THEN <<"\\", "'">>
                        ELSE <<text[i]>>])
    IN  IF hasSingle /\ ~hasDouble
        THEN <<"\"">> \o escaped \o <<"\"">>
        ELSE <<"'">> \o escaped \o <<"'">>

\* str() of the dict {"values": <str>, "id": <str>}
PyStrOfUnit(unit) ==
    <<"{", "'", "values", "'", ":", " ">> \o PyReprStr(unit.values)
      \o <<",", " ", "'", "id", "'", ":", " ">> \o PyReprStr(IdText(unit.id)) \o <<"}">>

----------------------------------------------------------------------------
(* Expression flattener: filter *)

RECURSIVE compose_sql_expression_of_filter_type(_, _)

\* what the f-string puts for {left_expr} / {right_expr}: the recursive call
\* with top=False returns a str for an EXPR leaf and a dict for anything else
FilterOperandText(child) ==
    IF child.type = "EXPR"
    THEN compose_sql_expression_of_filter_type(child, FALSE)
    ELSE PyStrOfUnit(compose_sql_expression_of_filter_type(child, FALSE))

compose_sql_expression_of_filter_type(filter_analysis, top) ==
    IF filter_analysis.type = "EXPR"
    THEN IF top
         THEN [values |-> filter_analysis.node, id |-> Get(filter_analysis, "id", "")]
         ELSE filter_analysis.node
    ELSE IF filter_analysis.type \in {"AND", "OR"}
    THEN [values |-> FilterOperandText(filter_analysis.left)
                       \o <<" ", filter_analysis.type, " ">>
                       \o FilterOperandText(filter_analysis.right),
          id |-> Get(filter_analysis, "id", "")]
    ELSE [values |-> <<>>, id |-> ""]

----------------------------------------------------------------------------
(* Expression flattener: group-by keys and sortings *)

compose_sql_expression_of_groupby_type(groupby_keys) ==
    LET keys == Flatten(groupby_keys)
    IN  [i \in DOMAIN keys |-> [values |-> keys[i].expression, id |-> Get(keys[i], "id", "")]]

compose_sql_expression_of_sortings_type(sortings) ==
    [i \in DOMAIN sortings |->
        [values |-> sortings[i].expression \o <<" ">> \o sortings[i].ordering,
         id |-> Get(sortings[i], "id", "")]]

----------------------------------------------------------------------------
(* Expression flattener: relation *)

JoinTypes == {"INNER_JOIN", "LEFT_JOIN", "RIGHT_JOIN", "FULL_JOIN", "CROSS_JOIN", "IMPLICIT_JOIN"}

\* relation["type"].endswith("_JOIN")
EndsWithJoin(type) == type \in JoinTypes

\* faulty variant, to show the property is sensitive: only the left child of a join is looked at
is_subquery_or_has_subquery_child_left_only(relation) ==
    IF relation.type = "SUBQUERY" THEN TRUE
    ELSE IF EndsWithJoin(relation.type) /\ relation.left.type = "SUBQUERY"
    THEN TRUE
    ELSE FALSE

is_subquery_or_has_subquery_child(relation) ==
    IF relation.type = "SUBQUERY" THEN TRUE
    ELSE IF EndsWithJoin(relation.type)
            /\ (relation.left.type = "SUBQUERY" \/ relation.right.type = "SUBQUERY")
    THEN TRUE
    ELSE FALSE

TableUnit(relation) ==
    [values |-> [type |-> relation.type, tableName |-> relation.tableName],
     id |-> Get(relation, "id", "")]

JoinUnit(relation) ==
    [values |-> [type |-> relation.type,
                 criteria |-> relation.criteria.expression,
                 exprSources |-> [i \in DOMAIN relation.exprSources |->
                     [expression |-> relation.exprSources[i].expression,
                      sourceDataset |-> relation.exprSources[i].sourceDataset,
                      sourceColumn |-> relation.exprSources[i].sourceColumn]]],
     id |-> Get(relation, "id", "")]

\* The two list objects the call works on are threaded through: the value is
\* the content of the list bound to `result` and of the list bound to
\* `cte_names` when the call returns, and the ids of the nodes the function
\* was called on, in call order.
RECURSIVE collect_relations(_, _, _, _, _)
collect_relations(relation, result, cte, top_level, calls) ==
    LET here == Append(calls, Get(relation, "id", ""))
    IN
    IF is_subquery_or_has_subquery_child(relation)
    THEN [result |-> result, cte_names |-> cte, calls |-> here]
    ELSE IF relation.type = "TABLE" /\ top_level
    THEN IF In(PyStr(relation.tableName), cte)
         THEN [result |-> result, cte_names |-> cte, calls |-> here]
         ELSE [result |-> Append(result, TableUnit(relation)), cte_names |-> cte, calls |-> here]
    ELSE IF EndsWithJoin(relation.type)
    THEN LET appended == Append(result, JoinUnit(relation))
             \* _collect_relations(relation["left"], cte_names, result, top_level=False):
             \* the callee's `result` is this call's cte_names list and the
             \* callee's `cte_names` is this call's result list
             l == collect_relations(relation.left, cte, appended, FALSE, here)
             r == collect_relations(relation.right, l.result, l.cte_names, FALSE, l.calls)
         IN  [result |-> r.cte_names, cte_names |-> r.result, calls |-> r.calls]
    ELSE [result |-> result, cte_names |-> cte, calls |-> here]

\* results = []; _collect_relations(relation, results, cte_names); return results
\* (cte_names: the content of the caller's list after the call)
compose_sql_expression_of_relation_type(relation, cte) ==
    collect_relations(relation, <<>>, cte, TRUE, <<>>)

----------------------------------------------------------------------------
(* Expression flattener: select items *)

\* faulty variant, to show the property is sensitive: the column of the data source is not compared
is_select_item_existed_in_selected_data_sources_dataset_only(select_item, sources) ==
    \E i \in DOMAIN sources : \E j \in DOMAIN sources[i] :
        /\ "exprSources" \in DOMAIN select_item
        /\ select_item.exprSources # <<>>
        /\ select_item.exprSources[1].sourceDataset = sources[i][j].sourceDataset

is_select_item_existed_in_selected_data_sources(select_item, sources) ==
    \E i \in DOMAIN sources : \E j \in DOMAIN sources[i] :
        /\ "exprSources" \in DOMAIN select_item
        /\ select_item.exprSources # <<>>
        /\ select_item.exprSources[1].sourceDataset = sources[i][j].sourceDataset
        /\ select_item.exprSources[1].sourceColumn = sources[i][j].sourceColumn

SelectUnit(select_item) ==
    [values |-> [alias |-> select_item.alias, expression |-> select_item.expression],
     id |-> Get(select_item, "id", "")]

IsWithFunctionCallOrMathematicalOperation(select_item) ==
    \/ select_item.properties.includeFunctionCall = "true"
    \/ select_item.properties.includeMathematicalOperation = "true"

compose_sql_expression_of_select_type(select_items, sources) ==
    LET with(item) == IsWithFunctionCallOrMathematicalOperation(item)
        retained == SelectSeq(select_items,
                        LAMBDA item : ~is_select_item_existed_in_selected_data_sources(item, sources))
        withItems == SelectSeq(retained, LAMBDA item : with(item))
        withoutItems == SelectSeq(retained, LAMBDA item : ~with(item))
    IN  [withFunctionCallOrMathematicalOperation |->
             [i \in DOMAIN withItems |-> SelectUnit(withItems[i])],
         withoutFunctionCallOrMathematicalOperation |->
             [i \in DOMAIN withoutItems |-> SelectUnit(withoutItems[i])]]

----------------------------------------------------------------------------
(* Analysis composer: SQLAnalysisPreprocessor.run *)

EmptySelectItems ==
    [withFunctionCallOrMathematicalOperation |-> <<>>,
     withoutFunctionCallOrMathematicalOperation |-> <<>>]

\* the bundle of one fragment, the content of the cte_names list after it,
\* and the relation nodes visited
PreprocessOne(sql_analysis_result, cte, sources) ==
    LET rel == IF "relation" \in DOMAIN sql_analysis_result
               THEN compose_sql_expression_of_relation_type(sql_analysis_result.relation, cte)
               ELSE [result |-> <<>>, cte_names |-> cte, calls |-> <<>>]
    IN  [bundle |->
            [filter |-> IF "filter" \in DOMAIN sql_analysis_result
                        THEN compose_sql_expression_of_filter_type(sql_analysis_result.filter, TRUE)
                        ELSE EmptyDict,
             groupByKeys |-> IF "groupByKeys" \in DOMAIN sql_analysis_result
                             THEN compose_sql_expression_of_groupby_type(sql_analysis_result.groupByKeys)
                             ELSE <<>>,
             relation |-> rel.result,
             selectItems |-> IF "selectItems" \in DOMAIN sql_analysis_result
                             THEN compose_sql_expression_of_select_type(
                                      sql_analysis_result.selectItems, sources)
                             ELSE EmptySelectItems,
             sortings |-> IF "sortings" \in DOMAIN sql_analysis_result
                          THEN compose_sql_expression_of_sortings_type(sql_analysis_result.sortings)
                          ELSE <<>>],
         cte_names |-> rel.cte_names,
         calls |-> rel.calls]

\* faulty variant, to show the property is sensitive: the isSubqueryOrCte flag
\* is not looked at
RECURSIVE PreprocessorRun_of_every_fragment(_, _, _, _, _)
PreprocessorRun_of_every_fragment(fragments, cte, sources, bundles, calls) ==
    IF fragments = <<>>
    THEN [preprocessed_sql_analysis_results |-> bundles, cte_names |-> cte, calls |-> calls]
    ELSE LET one == PreprocessOne(Head(fragments), cte, sources)
         IN  PreprocessorRun_of_every_fragment(Tail(fragments), one.cte_names, sources,
                                               Append(bundles, one.bundle),
                                               Append(calls, one.calls))

RECURSIVE PreprocessorRun(_, _, _, _, _)
PreprocessorRun(fragments, cte, sources, bundles, calls) ==
    IF fragments = <<>>
    THEN [preprocessed_sql_analysis_results |-> bundles, cte_names |-> cte, calls |-> calls]
    ELSE IF ~Get(Head(fragments), "isSubqueryOrCte", FALSE)
    THEN LET one == PreprocessOne(Head(fragments), cte, sources)
         IN  PreprocessorRun(Tail(fragments), one.cte_names, sources,
                             Append(bundles, one.bundle), Append(calls, one.calls))
    ELSE PreprocessorRun(Tail(fragments), cte, sources, bundles, calls)

\* the pipeline node preprocess
Preprocess ==
    /\ pc = "preprocess"
    /\ LET out == PreprocessorRun(sql_analysis_results, cte_names, selected_data_sources, <<>>, <<>>)
       IN  /\ preprocessed_sql_analysis_results' = out.preprocessed_sql_analysis_results
           /\ cte_names' = out.cte_names
           /\ visited' = out.calls
    /\ pc' = "prompts"
    /\ UNCHANGED <<sql_analysis_results, selected_data_sources, dispatch_vars, post_process>>

----------------------------------------------------------------------------
(* JSON values and the replies of the language model *)

(* A parsed JSON value is tagged with its Python type: a dict ("object", a  *)
(* function on its keys), a list ("array", a sequence of values), a str     *)
(* ("string", a sequence of one-character atoms), a number or None.  A      *)
(* reply text is JSON text, given by the value it parses to, or text that   *)
(* is not JSON.                                                            *)
JObj(fields) == [t |-> "object", v |-> fields]
JArr(elements) == [t |-> "array", v |-> elements]
JStr(chars) == [t |-> "string", v |-> chars]
JNum(n) == [t |-> "number", v |-> n]
JNull == [t |-> "null", v |-> 0]

JsonText(value) == [text |-> "json", value |-> value]
NotJsonText == [text |-> "garbage"]

\* orjson.loads(text): raises on text that is not JSON
CanLoad(text) == text.text = "json"
Loads(text) == text.value

\* bool(value) of a parsed JSON value
Truthy(j) ==
    CASE j.t = "object" -> DOMAIN j.v # {}
      [] j.t \in {"array", "string"} -> j.v # <<>>
      [] j.t = "number" -> j.v # 0
      [] j.t = "null" -> FALSE

\* iter(value) in zip(): the elements of a list, the characters of a str;
\* a number or None cannot be iterated (TypeError)
CanIterate(j) == j.t \in {"array", "string"}
Elements(j) == IF j.t = "array" THEN j.v ELSE [i \in DOMAIN j.v |-> JStr(<<j.v[i]>>)]

\* faulty variant, to show the property is sensitive: a list gives ""
extract_to_str_of_str_only(data) ==
    IF data.t = "string" THEN data ELSE JStr(<<>>)

extract_to_str(data) ==
    IF data.t = "array" /\ data.v # <<>> THEN data.v[1]
    ELSE IF data.t = "string" THEN data
    ELSE JStr(<<>>)

----------------------------------------------------------------------------
(* Result reconciler: SQLExplanationGenerationPostProcessor.run *)

\* the keys of a bundle, in the order run() of the preprocessor inserts them
Categories == <<"filter", "groupByKeys", "relation", "selectItems", "sortings">>

\* bool(bundle[key]): a dict for filter and selectItems, a list otherwise
BundleTruthy(bundle, key) ==
    IF key \in {"filter", "selectItems"}
    THEN DOMAIN bundle[key] # {}
    ELSE bundle[key] # <<>>

Min(a, b) == IF a <= b THEN a ELSE b

\* faulty variant, to show the property is sensitive: the pairs are dropped when the lengths differ
Zip_same_length_only(a, b) ==
    IF Len(a) = Len(b) THEN [i \in 1 .. Len(a) |-> <<a[i], b[i]>>] ELSE <<>>

\* zip(a, b)
Zip(a, b) == [i \in 1 .. Min(Len(a), Len(b)) |-> <<a[i], b[i]>>]

\* {"id": ..., "expression": ..., "explanation": ...}
ExpressionRecord(type, unit, sql_explanation) ==
    [type |-> type,
     payload |-> [id |-> unit.id, expression |-> unit.values,
                  explanation |-> extract_to_str(sql_explanation)]]

\* {"id": ..., **relation["values"], "explanation": ...}: a later key wins
RelationRecord(unit, sql_explanation) ==
    [type |-> "relation",
     payload |-> [explanation |-> extract_to_str(sql_explanation)]
                    @@ unit.values @@ [id |-> unit.id]]

\* faulty variant, to show the property is sensitive: every record is tagged
\* as a function call or mathematical operation
SelectItemRecord_always_tagged(unit, sql_explanation, with) ==
    [type |-> "selectItems",
     payload |-> [isFunctionCallOrMathematicalOperation |-> TRUE,
                  explanation |-> extract_to_str(sql_explanation)]
                    @@ unit.values @@ [id |-> unit.id]]

SelectItemRecord(unit, sql_explanation, with) ==
    [type |-> "selectItems",
     payload |-> [isFunctionCallOrMathematicalOperation |-> with,
                  explanation |-> extract_to_str(sql_explanation)]
                    @@ unit.values @@ [id |-> unit.id]]

\* what one pass of the loop body does: it raises, or it appends records
Raised == [raised |-> TRUE, records |-> <<>>]
Appended(records) == [raised |-> FALSE, records |-> records]

\* the body of the branch taken for `key`; results is the dict of the reply
BranchRecords(key, bundle, results) ==
    IF key = "filter"
    THEN Appended(<<ExpressionRecord("filter", bundle.filter, results.filter)>>)
    ELSE IF key \in {"groupByKeys", "sortings"}
    THEN IF ~CanIterate(results[key]) THEN Raised
         ELSE LET pairs == Zip(bundle[key], Elements(results[key]))
              IN  Appended([i \in DOMAIN pairs |->
                               ExpressionRecord(key, pairs[i][1], pairs[i][2])])
    ELSE IF key = "relation"
    THEN IF ~CanIterate(results.relation) THEN Raised
         ELSE LET pairs == Zip(bundle.relation, Elements(results.relation))
              IN  Appended([i \in DOMAIN pairs |-> RelationRecord(pairs[i][1], pairs[i][2])])
    ELSE \* selectItems: results["selectItems"].get(...) needs a dict
         IF results.selectItems.t # "object" THEN Raised
         ELSE LET with == Get(results.selectItems.v,
                              "withFunctionCallOrMathematicalOperation", JArr(<<>>))
                  without == Get(results.selectItems.v,
                                 "withoutFunctionCallOrMathematicalOperation", JArr(<<>>))
              IN  IF ~CanIterate(with) \/ ~CanIterate(without) THEN Raised
                  ELSE LET withPairs ==
                               Zip(bundle.selectItems.withFunctionCallOrMathematicalOperation,
                                   Elements(with))
                           withoutPairs ==
                               Zip(bundle.selectItems.withoutFunctionCallOrMathematicalOperation,
                                   Elements(without))
                       IN  Appended(
                             [i \in DOMAIN withPairs |->
                                 SelectItemRecord(withPairs[i][1], withPairs[i][2], TRUE)]
                             \o [i \in DOMAIN withoutPairs |->
                                 SelectItemRecord(withoutPairs[i][1], withoutPairs[i][2], FALSE)])

\* faulty variant, to show the property is sensitive: a chain of ifs, every
\* category that matches gives its records
RECURSIVE MatchFrom_every_category(_, _, _)
MatchFrom_every_category(k, bundle, sql_explanation_results) ==
    IF k > Len(Categories) THEN Appended(<<>>)
    ELSE LET key == Categories[k]
             rest == MatchFrom_every_category(k + 1, bundle, sql_explanation_results)
         IN  IF ~BundleTruthy(bundle, key) THEN rest
             ELSE IF sql_explanation_results.t # "object" THEN Raised
             ELSE IF ~(key \in DOMAIN sql_explanation_results.v
                       /\ Truthy(sql_explanation_results.v[key]))
             THEN rest
             ELSE LET here == BranchRecords(key, bundle, sql_explanation_results.v)
                  IN  IF here.raised \/ rest.raised THEN Raised
                      ELSE Appended(here.records \o rest.records)

\* the if/elif chain from the k-th category on: the bundle's value is tested
\* first, and only when it is truthy is sql_explanation_results.get called,
\* which raises unless sql_explanation_results is a dict
RECURSIVE MatchFrom(_, _, _)
MatchFrom(k, bundle, sql_explanation_results) ==
    IF k > Len(Categories) THEN Appended(<<>>)
    ELSE LET key == Categories[k]
         IN  IF ~BundleTruthy(bundle, key)
             THEN MatchFrom(k + 1, bundle, sql_explanation_results)
             ELSE IF sql_explanation_results.t # "object" THEN Raised
             ELSE IF ~(key \in DOMAIN sql_explanation_results.v
                       /\ Truthy(sql_explanation_results.v[key]))
             THEN MatchFrom(k + 1, bundle, sql_explanation_results)
             ELSE BranchRecords(key, bundle, sql_explanation_results.v)

\* the body of `for generate in generates`
ReconcileReply(bundle, generate) ==
    IF generate.replies = <<>> THEN Raised                     \* IndexError
    ELSE IF ~CanLoad(generate.replies[1]) THEN Raised          \* JSONDecodeError
    ELSE LET document == Loads(generate.replies[1])
         IN  IF document.t # "object" THEN Raised              \* TypeError
             ELSE IF "results" \notin DOMAIN document.v THEN Raised   \* KeyError
             ELSE MatchFrom(1, bundle, document.v.results)

\* faulty variant, to show the property is sensitive: the exception is caught inside the loop, which goes on
RECURSIVE ReconcileReplies_catch_inside_loop(_, _, _)
ReconcileReplies_catch_inside_loop(bundle, generates, results) ==
    IF generates = <<>> THEN results
    ELSE LET step == ReconcileReply(bundle, Head(generates))
         IN  ReconcileReplies_catch_inside_loop(bundle, Tail(generates),
                                                results \o step.records)

\* the loop inside the try: the first exception ends it
RECURSIVE ReconcileReplies(_, _, _)
ReconcileReplies(bundle, generates, results) ==
    IF generates = <<>> THEN results
    ELSE LET step == ReconcileReply(bundle, Head(generates))
         IN  IF step.raised THEN results
             ELSE ReconcileReplies(bundle, Tail(generates), results \o step.records)

PostProcessorRun(generates, bundles) ==
    IF bundles # <<>> THEN ReconcileReplies(bundles[1], generates, <<>>) ELSE <<>>

\* the pipeline node post_process
PostProcess ==
    /\ pc = "post_process"
    /\ post_process' = PostProcessorRun(generate_sql_explanation,
                                        preprocessed_sql_analysis_results)
    /\ pc' = "done"
    /\ UNCHANGED <<flatten_vars, dispatch_vars>>

----------------------------------------------------------------------------
(* Prompt request builder: prompts *)

get_sql_explanation_prompt_given_analysis_type(sql_analysis_type) ==
    CASE sql_analysis_type = "filter" -> "Explain the filter condition in the SQL query."
      [] sql_analysis_type = "groupByKeys" -> "Explain the group by keys in the SQL query."
      [] sql_analysis_type = "relation" -> "Explain the relation in the SQL query."
      [] sql_analysis_type = "selectItems" -> "Explain the select items in the SQL query."
      [] sql_analysis_type = "sortings" -> "Explain the sortings in the SQL query."
      [] OTHER -> ""

\* [v["values"] for v in value]
ValuesOf(units) == [i \in DOMAIN units |-> units[i].values]

\* the bundle's value for `key` without the ids
WithValues(key, value) ==
    IF key # "selectItems"
    THEN IF key # "filter"                      \* isinstance(value, list)
         THEN ValuesOf(value)
         ELSE value.values
    ELSE [withFunctionCallOrMathematicalOperation |->
              ValuesOf(value.withFunctionCallOrMathematicalOperation),
          withoutFunctionCallOrMathematicalOperation |->
              ValuesOf(value.withoutFunctionCallOrMathematicalOperation)]

\* what prompt_builder.run is given for one category (question, sql and
\* sql_summary are the same for every request of the batch)
Request(key, value) ==
    [sql_analysis_type |-> key,
     sql_analysis_result |-> key :> WithValues(key, value),
     explanation_hint |-> get_sql_explanation_prompt_given_analysis_type(key)]

\* for key, value in preprocessed_sql_analysis_result.items(): if value: ...
RequestsOfBundle(bundle) ==
    LET keys == SelectSeq(Categories, LAMBDA key : BundleTruthy(bundle, key))
    IN  [i \in DOMAIN keys |-> Request(keys[i], bundle[keys[i]])]

\* the requests of every bundle of the list, in order
PromptsOf(bundles) == Flatten([b \in DOMAIN bundles |-> RequestsOfBundle(bundles[b])])

\* the pipeline node prompts
Prompts ==
    /\ pc = "prompts"
    /\ prompts' = PromptsOf(preprocessed_sql_analysis_results)
    /\ pc' = "generate"
    /\ UNCHANGED <<flatten_vars, tasks, gather, generate_sql_explanation, post_process>>

----------------------------------------------------------------------------
(* Explanation dispatcher: generate_sql_explanation *)

\* the reply of the language model that answers the request as the system
\* prompt asks: one explanation per expression of the category
AnswerTo(request) ==
    LET key == request.sql_analysis_type
        value == request.sql_analysis_result[key]
    IN  [replies |-> <<JsonText(JObj([results |-> JObj(key :>
            IF key = "filter" THEN JArr(<<JStr(<<"e", "1">>)>>)
            ELSE IF key = "selectItems"
            THEN JObj([withFunctionCallOrMathematicalOperation |->
                           JArr([i \in DOMAIN value.withFunctionCallOrMathematicalOperation
                                    |-> JStr(<<"e", ToString(i)>>)]),
                       withoutFunctionCallOrMathematicalOperation |->
                           JArr([i \in DOMAIN value.withoutFunctionCallOrMathematicalOperation
                                    |-> JStr(<<"e", ToString(i)>>)])])
            ELSE JArr([i \in DOMAIN value |-> JStr(<<"e", ToString(i)>>)]))]))>>]

\* tasks = [_task(prompt, generator) for prompt in prompts]; asyncio.gather(*tasks)
\* starts every call and waits
Dispatch ==
    /\ pc = "generate"
    /\ gather = "idle"
    /\ tasks' = [i \in DOMAIN prompts |-> [state |-> "pending"]]
    /\ gather' = "waiting"
    /\ UNCHANGED <<flatten_vars, prompts, generate_sql_explanation, post_process, pc>>

\* the number of calls that have settled so far
Settled(ts) == Cardinality({j \in DOMAIN ts : ts[j].state # "pending"})

\* generator.run of the i-th call returns, as the order-th call of the batch to
\* settle; a call goes on after gather raised
TaskReturns(i) ==
    /\ gather \in {"waiting", "raised"}
    /\ tasks[i].state = "pending"
    /\ tasks' = [tasks EXCEPT ![i] = [state |-> "returned", result |-> AnswerTo(prompts[i]),
                                      order |-> Settled(tasks) + 1]]
    /\ UNCHANGED <<flatten_vars, prompts, gather, generate_sql_explanation, post_process, pc>>

\* generator.run of the i-th call raises (a timeout, an error of the provider)
TaskRaises(i) ==
    /\ gather \in {"waiting", "raised"}
    /\ tasks[i].state = "pending"
    /\ tasks' = [tasks EXCEPT ![i] = [state |-> "raised", order |-> Settled(tasks) + 1]]
    /\ UNCHANGED <<flatten_vars, prompts, gather, generate_sql_explanation, post_process, pc>>

\* faulty variant, to show the property is sensitive: the results are
\* gathered in the order in which the calls returned
GatherReturns_in_completion_order ==
    /\ gather = "waiting"
    /\ \A i \in DOMAIN tasks : tasks[i].state = "returned"
    /\ generate_sql_explanation' =
           [k \in DOMAIN tasks |-> tasks[CHOOSE i \in DOMAIN tasks : tasks[i].order = k].result]
    /\ gather' = "returned"
    /\ pc' = "post_process"
    /\ UNCHANGED <<flatten_vars, prompts, tasks, post_process>>

\* faulty variant, to show the property is sensitive: gather returns once a
\* call has returned, with the replies that have come back
GatherReturns_on_first_reply ==
    /\ gather = "waiting"
    /\ \E i \in DOMAIN tasks : tasks[i].state = "returned"
    /\ generate_sql_explanation' =
           LET back == SelectSeq([i \in DOMAIN tasks |-> tasks[i]],
                                 LAMBDA task : task.state = "returned")
           IN  [k \in DOMAIN back |-> back[k].result]
    /\ gather' = "returned"
    /\ pc' = "post_process"
    /\ UNCHANGED <<flatten_vars, prompts, tasks, post_process>>

\* every call has returned: gather gives the results in the order of the calls
GatherReturns ==
    /\ gather = "waiting"
    /\ \A i \in DOMAIN tasks : tasks[i].state = "returned"
    /\ generate_sql_explanation' = [i \in DOMAIN tasks |-> tasks[i].result]
    /\ gather' = "returned"
    /\ pc' = "post_process"
    /\ UNCHANGED <<flatten_vars, prompts, tasks, post_process>>

\* a call has raised: gather (return_exceptions=False) raises its exception to
\* the awaiting pipeline, which ends with it; the other calls are not cancelled
GatherRaises ==
    /\ gather = "waiting"
    /\ \E i \in DOMAIN tasks : tasks[i].state = "raised"
    /\ gather' = "raised"
    /\ pc' = "raised"
    /\ UNCHANGED <<flatten_vars, prompts, tasks, generate_sql_explanation, post_process>>

\* faulty variant, to show the property is sensitive: cancelling the await
\* leaves the calls running
Cancel_leaves_calls_running ==
    /\ gather = "waiting"
    /\ gather' = "cancelled"
    /\ pc' = "cancelled"
    /\ UNCHANGED <<flatten_vars, prompts, tasks, generate_sql_explanation, post_process>>

\* the caller cancels the run while it awaits gather: a cancelled gather
\* cancels every awaitable it was given that has not completed, and the
\* CancelledError ends the pipeline
Cancel ==
    /\ gather = "waiting"
    /\ tasks' = [i \in DOMAIN tasks |->
                    IF tasks[i].state = "pending"
                    THEN [state |-> "cancelled", order |-> Settled(tasks) + 1]
                    ELSE tasks[i]]
    /\ gather' = "cancelled"
    /\ pc' = "cancelled"
    /\ UNCHANGED <<flatten_vars, prompts, generate_sql_explanation, post_process>>

----------------------------------------------------------------------------
(* Inputs of the flattener *)

FilterLeaves ==
    {[type |-> "EXPR", node |-> <<"a">>, id |-> "f1"],
     [type |-> "EXPR", node |-> <<"b">>],
     [type |-> "NOT"]}

\* the filter trees with n AND/OR nodes
RECURSIVE FilterTrees(_)
FilterTrees(n) ==
    IF n = 0 THEN FilterLeaves
    ELSE UNION {UNION {{[type |-> "AND", left |-> l, right |-> r, id |-> "f0"],
                        [type |-> "OR", left |-> l, right |-> r]}
                       : l \in FilterTrees(k), r \in FilterTrees(n - 1 - k)}
                : k \in 0 .. (n - 1)}

TableNode(p, name) == [type |-> "TABLE", tableName |-> name, id |-> ToString(p)]

SubqueryNode(p) == [type |-> "SUBQUERY", id |-> ToString(p)]

JoinNode(p, l, r) ==
    [type |-> IF p % 2 = 0 THEN "LEFT_JOIN" ELSE "INNER_JOIN",
     criteria |-> [expression |-> <<"on", ToString(p)>>],
     exprSources |-> <<[expression |-> <<"e">>, sourceDataset |-> "d1",
                        sourceColumn |-> "c1", nodeLocation |-> p]>>,
     left |-> l, right |-> r, id |-> ToString(p)]

\* the join trees with n join nodes; the node at heap position p has id p
RECURSIVE RelationTrees(_, _)
RelationTrees(n, p) ==
    IF n = 0
    THEN {TableNode(p, "t"), TableNode(p, "c"), SubqueryNode(p)}
    ELSE UNION {{JoinNode(p, l, r)
                 : l \in RelationTrees(k, 2 * p), r \in RelationTrees(n - 1 - k, 2 * p + 1)}
                : k \in 0 .. (n - 1)}

CteNameLists == {<<>>, <<PyStr("c")>>}

DataSource(dataset, column) == [sourceDataset |-> dataset, sourceColumn |-> column]

ExprSource(dataset, column) ==
    [expression |-> <<column>>, sourceDataset |-> dataset, sourceColumn |-> column]

SelectedDataSourceLists ==
    {<<>>,
     << <<DataSource("d1", "c1")>> >>,
     << <<DataSource("d2", "c2")>>, <<DataSource("d2", "c1"), DataSource("d1", "c1")>> >>}

ExprSourceLists ==
    {<<>>, <<ExprSource("d1", "c1")>>, <<ExprSource("d1", "c2")>>,
     <<ExprSource("d1", "c2"), ExprSource("d1", "c1")>>}

\* the i-th select item of a statement
SelectItem(i, fc, mo, sources) ==
    [alias |-> <<"col", ToString(i)>>, expression |-> <<"x", ToString(i)>>,
     properties |-> [includeFunctionCall |-> fc, includeMathematicalOperation |-> mo],
     exprSources |-> sources, id |-> ToString(i)]

SelectItemsAt(i) ==
    {SelectItem(i, fc, mo, src) : fc \in {"true", "false"}, mo \in {"true", "false"},
                                  src \in ExprSourceLists}
    \cup {[alias |-> <<"col", ToString(i)>>, expression |-> <<"x", ToString(i)>>,
           properties |-> [includeFunctionCall |-> fc, includeMathematicalOperation |-> "false"],
           id |-> ToString(i)] : fc \in {"true", "false"}}

\* the select-item lists of length n
RECURSIVE SelectItemLists(_)
SelectItemLists(n) ==
    IF n = 0 THEN {<<>>}
    ELSE {Append(items, item) : items \in SelectItemLists(n - 1), item \in SelectItemsAt(n)}

GroupByKeysSample ==
    << <<[expression |-> <<"g1">>, id |-> "g1"], [expression |-> <<"g2">>]>>,
       <<[expression |-> <<"g3">>, id |-> "g3"]>> >>

SortingsSample ==
    <<[expression |-> <<"s1">>, ordering |-> <<"ASC">>, id |-> "o1"],
      [expression |-> <<"s2">>, ordering |-> <<"DESC">>]>>

\* nothing has run yet
NotStarted ==
    /\ pc = "preprocess"
    /\ preprocessed_sql_analysis_results = <<>>
    /\ visited = <<>>
    /\ prompts = <<>>
    /\ tasks = <<>>
    /\ gather = "idle"
    /\ generate_sql_explanation = <<>>
    /\ post_process = <<>>

\* the fragments of a statement with several analysis results
FlattenFragments ==
    {[filter |-> [type |-> "EXPR", node |-> <<"a">>, id |-> "f1"],
      selectItems |-> <<SelectItem(1, "true", "false", <<>>)>>],
     [groupByKeys |-> GroupByKeysSample, sortings |-> SortingsSample,
      isSubqueryOrCte |-> FALSE],
     [isSubqueryOrCte |-> TRUE, sortings |-> SortingsSample]}

\* the lists of n of them
RECURSIVE FlattenFragmentLists(_)
FlattenFragmentLists(n) ==
    IF n = 0 THEN {<<>>}
    ELSE {Append(fragments, fragment) : fragments \in FlattenFragmentLists(n - 1),
                                        fragment \in FlattenFragments}

InitFlatten ==
    /\ NotStarted
    /\ \/ /\ \E n \in 0 .. MaxFilterOps : \E f \in FilterTrees(n) :
                 sql_analysis_results = <<[filter |-> f]>>
           /\ cte_names = <<>>
           /\ selected_data_sources = <<>>
       \/ /\ \E n \in 0 .. MaxJoins : \E r \in RelationTrees(n, 1) :
                 sql_analysis_results = <<[relation |-> r]>>
           /\ cte_names \in CteNameLists
           /\ selected_data_sources = <<>>
       \/ /\ \E n \in 0 .. MaxSelectItems : \E items \in SelectItemLists(n) :
                 sql_analysis_results = <<[selectItems |-> items]>>
           /\ cte_names = <<>>
           /\ selected_data_sources \in SelectedDataSourceLists
       \/ /\ sql_analysis_results \in
                 {<<[groupByKeys |-> GroupByKeysSample, sortings |-> SortingsSample]>>,
                  <<[isSubqueryOrCte |-> TRUE, groupByKeys |-> GroupByKeysSample]>>}
           /\ cte_names = <<>>
           /\ selected_data_sources = <<>>
       \/ /\ \E n \in 0 .. MaxFlattenFragments :
                 sql_analysis_results \in FlattenFragmentLists(n)
           /\ cte_names = <<>>
           /\ selected_data_sources = <<>>

SpecFlatten == InitFlatten /\ [][Preprocess]_vars

----------------------------------------------------------------------------
(* Inputs of the reconciler *)

\* a statement with every category: 1 filter unit, 3 group-by units, 2
\* relation units, 2 + 1 select units, 2 sorting units
RichFragment ==
    [filter |-> [type |-> "EXPR", node |-> <<"a">>, id |-> "f1"],
     groupByKeys |-> GroupByKeysSample,
     relation |-> JoinNode(1, JoinNode(2, JoinNode(4, TableNode(8, "t"), TableNode(9, "t")),
                                          TableNode(5, "t")),
                              TableNode(3, "t")),
     selectItems |-> <<SelectItem(1, "true", "false", <<>>),
                       SelectItem(2, "false", "false", <<>>),
                       SelectItem(3, "false", "true", <<>>)>>,
     sortings |-> SortingsSample]

\* a statement with group-by keys and sortings only
PlainFragment == [groupByKeys |-> GroupByKeysSample, sortings |-> SortingsSample]

ReconcileFragmentLists ==
    {<<RichFragment>>, <<PlainFragment, RichFragment>>,
     <<[isSubqueryOrCte |-> TRUE, groupByKeys |-> GroupByKeysSample]>>}

Explanation(i) == JStr(<<"e", ToString(i)>>)

Explanations(m) == JArr([i \in 1 .. m |-> Explanation(i)])

\* a reply whose text is a JSON document with the given `results`
ReplyWithResults(results) == [replies |-> <<JsonText(JObj([results |-> results]))>>]

\* what the language model may answer
Replies ==
    {[replies |-> <<NotJsonText>>],
     [replies |-> <<JsonText(JObj([answer |-> Explanations(1)]))>>],
     ReplyWithResults(Explanations(1)),
     ReplyWithResults(JObj([filter |-> Explanations(1)])),
     ReplyWithResults(JObj([filter |-> Explanations(2)])),
     ReplyWithResults(JObj([filter |-> JNum(5)])),
     ReplyWithResults(JObj([filter |-> Explanation(1), sortings |-> Explanations(1)])),
     ReplyWithResults(JObj([groupByKeys |-> Explanations(2)])),
     ReplyWithResults(JObj([groupByKeys |-> Explanations(4)])),
     ReplyWithResults(JObj([groupByKeys |-> JNum(5)])),
     ReplyWithResults(JObj([relation |-> Explanations(1)])),
     ReplyWithResults(JObj([relation |-> Explanations(1), sortings |-> Explanations(2)])),
     ReplyWithResults(JObj([selectItems |->
         JObj([withFunctionCallOrMathematicalOperation |-> Explanations(1)]),
                            sortings |-> Explanations(2)])),
     ReplyWithResults(JObj([selectItems |->
         JObj([withFunctionCallOrMathematicalOperation |-> Explanations(1),
               withoutFunctionCallOrMathematicalOperation |-> Explanations(2)])])),
     ReplyWithResults(JObj([sortings |-> Explanations(2)]))}

\* the lists of n replies
RECURSIVE ReplyLists(_)
ReplyLists(n) ==
    IF n = 0 THEN {<<>>}
    ELSE {Append(generates, generate) : generates \in ReplyLists(n - 1), generate \in Replies}

\* post_process is about to run on the bundles of some statement and some replies
InitReconcile ==
    /\ pc = "post_process"
    /\ \E fragments \in ReconcileFragmentLists :
         LET out == PreprocessorRun(fragments, <<>>, <<>>, <<>>, <<>>)
         IN  /\ sql_analysis_results = fragments
             /\ cte_names = out.cte_names
             /\ preprocessed_sql_analysis_results = out.preprocessed_sql_analysis_results
             /\ visited = out.calls
    /\ selected_data_sources = <<>>
    /\ prompts = <<>>
    /\ tasks = <<>>
    /\ gather = "returned"
    /\ \E n \in 0 .. MaxReplies : generate_sql_explanation \in ReplyLists(n)
    /\ post_process = <<>>

SpecReconcile == InitReconcile /\ [][PostProcess]_vars

----------------------------------------------------------------------------
(* The pipeline: preprocess, prompts, generate_sql_explanation, post_process *)

FilterFragment == [filter |-> [type |-> "EXPR", node |-> <<"a">>, id |-> "f1"]]

FilterGroupByFragment ==
    [filter |-> [type |-> "EXPR", node |-> <<"a">>, id |-> "f1"],
     groupByKeys |-> GroupByKeysSample]

SubqueryFragment == [isSubqueryOrCte |-> TRUE, sortings |-> SortingsSample]

PipelineFragments == {FilterFragment, FilterGroupByFragment, SubqueryFragment}

\* the lists of n fragments
RECURSIVE FragmentLists(_)
FragmentLists(n) ==
    IF n = 0 THEN {<<>>}
    ELSE {Append(fragments, fragment) : fragments \in FragmentLists(n - 1),
                                        fragment \in PipelineFragments}

Init ==
    /\ NotStarted
    /\ \E n \in 0 .. MaxFragments : sql_analysis_results \in FragmentLists(n)
    /\ cte_names = <<>>
    /\ selected_data_sources = <<>>

Next ==
    \/ Preprocess
    \/ Prompts
    \/ Dispatch
    \/ \E i \in DOMAIN tasks : TaskReturns(i)
    \/ \E i \in DOMAIN tasks : TaskRaises(i)
    \/ GatherReturns
    \/ GatherRaises
    \/ Cancel
    \/ PostProcess

Spec == Init /\ [][Next]_vars

----------------------------------------------------------------------------
(* The pipeline from generate_sql_explanation on, for the requests of some  *)
(* statement                                                               *)

DispatchFragmentLists ==
    {<<>>, <<FilterFragment>>, <<FilterGroupByFragment>>, <<PlainFragment>>,
     <<SubqueryFragment, FilterFragment>>, <<FilterFragment, FilterFragment>>,
     <<RichFragment>>}

\* preprocess and prompts have run; the batch has at most MaxCalls requests
InitDispatch ==
    /\ pc = "generate"
    /\ \E fragments \in DispatchFragmentLists :
         LET out == PreprocessorRun(fragments, <<>>, <<>>, <<>>, <<>>)
         IN  /\ Len(PromptsOf(out.preprocessed_sql_analysis_results)) <= MaxCalls
             /\ sql_analysis_results = fragments
             /\ cte_names = out.cte_names
             /\ preprocessed_sql_analysis_results = out.preprocessed_sql_analysis_results
             /\ visited = out.calls
             /\ prompts = PromptsOf(out.preprocessed_sql_analysis_results)
    /\ selected_data_sources = <<>>
    /\ tasks = <<>>
    /\ gather = "idle"
    /\ generate_sql_explanation = <<>>
    /\ post_process = <<>>

NextDispatch ==
    \/ Dispatch
    \/ \E i \in DOMAIN tasks : TaskReturns(i)
    \/ \E i \in DOMAIN tasks : TaskRaises(i)
    \/ GatherReturns
    \/ GatherRaises
    \/ Cancel
    \/ PostProcess

SpecDispatch == InitDispatch /\ [][NextDispatch]_vars

----------------------------------------------------------------------------
(* Properties of the flattener, checked under SpecFlatten *)

\* preprocess has run on a single fragment that is not a subquery or CTE
Flattened ==
    /\ pc # "preprocess"
    /\ Len(sql_analysis_results) = 1
    /\ Len(preprocessed_sql_analysis_results) = 1

TheFragment == sql_analysis_results[1]
TheBundle == preprocessed_sql_analysis_results[1]

RECURSIVE Subtrees(_)
Subtrees(relation) ==
    IF EndsWithJoin(relation.type)
    THEN {relation} \cup Subtrees(relation.left) \cup Subtrees(relation.right)
    ELSE {relation}

HasSubquery(relation) == \E s \in Subtrees(relation) : s.type = "SUBQUERY"

CountJoins(relation) == Cardinality({s \in Subtrees(relation) : EndsWithJoin(s.type)})

\* C1: for a join tree with no SUBQUERY node at any depth, the number of
\* relation units returned is (1 if the root is a TABLE leaf whose tableName
\* is not a CTE name, else 0) plus the number of join nodes of the whole tree.
C1_EveryJoinIsOneUnit ==
    (Flattened /\ "relation" \in DOMAIN TheFragment /\ ~HasSubquery(TheFragment.relation)) =>
        LET root == TheFragment.relation
        IN  Len(TheBundle.relation) =
                (IF root.type = "TABLE" /\ ~In(PyStr(root.tableName), cte_names) THEN 1 ELSE 0)
                + CountJoins(root)

RECURSIVE OnlyExprAndOr(_)
OnlyExprAndOr(f) ==
    \/ f.type = "EXPR"
    \/ f.type \in {"AND", "OR"} /\ OnlyExprAndOr(f.left) /\ OnlyExprAndOr(f.right)

\* the leaf expressions and operator names in order, separated by single spaces
RECURSIVE InOrderText(_)
InOrderText(f) ==
    IF f.type = "EXPR" THEN f.node
    ELSE InOrderText(f.left) \o <<" ", f.type, " ">> \o InOrderText(f.right)

\* C2: a filter tree of EXPR leaves and AND/OR nodes, of any depth, is
\* flattened to one unit whose rendered value is the in-order sequence of the
\* leaf expressions and operator names separated by single spaces, with no
\* other text; when the root is an EXPR leaf the unit's id is the leaf's id
\* (the empty string if absent).
C2_FilterRendersInOrder ==
    (Flattened /\ "filter" \in DOMAIN TheFragment /\ OnlyExprAndOr(TheFragment.filter)) =>
        /\ TheBundle.filter.values = InOrderText(TheFragment.filter)
        /\ TheFragment.filter.type = "EXPR" =>
               TheBundle.filter.id = Get(TheFragment.filter, "id", "")

\* C3: a run of the flattener and composer leaves the analysis fragments,
\* the CTE name list and the selected-data-sources list as they were.
C3_InputsUnchanged ==
    [][/\ sql_analysis_results' = sql_analysis_results
       /\ cte_names' = cte_names
       /\ selected_data_sources' = selected_data_sources]_vars

\* a SUBQUERY, or a join with a SUBQUERY as its left or right child
SkipRoot(s) ==
    \/ s.type = "SUBQUERY"
    \/ s.type \in JoinTypes /\ (s.left.type = "SUBQUERY" \/ s.right.type = "SUBQUERY")

\* the ids of the units the traversal appended to either of its lists
EmittedIds ==
    {TheBundle.relation[i].id : i \in DOMAIN TheBundle.relation}
    \cup {cte_names[i].id : i \in {j \in DOMAIN cte_names : "id" \in DOMAIN cte_names[j]}}

\* C9: at every depth of the relation tree, a subtree whose root is a SUBQUERY
\* or a join with a SUBQUERY as an immediate child contributes no unit, and
\* none of its descendants is visited or emitted.
C9_SkippedSubtreeContributesNothing ==
    (Flattened /\ "relation" \in DOMAIN TheFragment) =>
        \A s \in Subtrees(TheFragment.relation) :
            SkipRoot(s) =>
                /\ \A d \in Subtrees(s) \ {s} : ~In(d.id, visited[1])
                /\ \A d \in Subtrees(s) : d.id \notin EmittedIds

\* a join below the root with a SUBQUERY child and a join among its
\* descendants was reached by the traversal
C9_Witness ==
    /\ Flattened
    /\ "relation" \in DOMAIN TheFragment
    /\ \E s \in Subtrees(TheFragment.relation) \ {TheFragment.relation} :
          /\ SkipRoot(s)
          /\ s.type \in JoinTypes
          /\ In(s.id, visited[1])
          /\ \E d \in Subtrees(s) \ {s} : d.type \in JoinTypes
    /\ TheBundle.relation # <<>>

\* the first exprSources entry of the item names a selected data source
NamesSelectedDataSource(item) ==
    /\ "exprSources" \in DOMAIN item
    /\ Len(item.exprSources) >= 1
    /\ \E i \in DOMAIN selected_data_sources : \E j \in DOMAIN selected_data_sources[i] :
          <<item.exprSources[1].sourceDataset, item.exprSources[1].sourceColumn>>
            = <<selected_data_sources[i][j].sourceDataset, selected_data_sources[i][j].sourceColumn>>

HasFunctionCallOrMath(item) ==
    item.properties.includeFunctionCall = "true" \/ item.properties.includeMathematicalOperation = "true"

\* the units of `group` are the units of the items that satisfy Keep, once
\* each and in input order
IsGroupOf(group, items, Keep(_)) ==
    /\ \A i \in DOMAIN items :
          Cardinality({k \in DOMAIN group : group[k].id = items[i].id})
            = IF Keep(items[i]) THEN 1 ELSE 0
    /\ \A k \in DOMAIN group : \E i \in DOMAIN items :
          /\ group[k].id = items[i].id
          /\ group[k].values = [alias |-> items[i].alias, expression |-> items[i].expression]
    /\ \A k1, k2 \in DOMAIN group : \A i1, i2 \in DOMAIN items :
          (k1 < k2 /\ group[k1].id = items[i1].id /\ group[k2].id = items[i2].id) => i1 < i2

\* C10: no retained select unit comes from an item whose first exprSources
\* entry equals, by (sourceDataset, sourceColumn), an entry of the
\* selected-data-sources list; every other item is retained exactly once, in
\* input order, in the 'with' group iff includeFunctionCall = "true" or
\* includeMathematicalOperation = "true", and otherwise in the 'without' group.
C10_SelectPartition ==
    (Flattened /\ "selectItems" \in DOMAIN TheFragment) =>
        LET items == TheFragment.selectItems
            WithOp(item) == ~NamesSelectedDataSource(item) /\ HasFunctionCallOrMath(item)
            WithoutOp(item) == ~NamesSelectedDataSource(item) /\ ~HasFunctionCallOrMath(item)
        IN  /\ IsGroupOf(TheBundle.selectItems.withFunctionCallOrMathematicalOperation,
                         items, WithOp)
            /\ IsGroupOf(TheBundle.selectItems.withoutFunctionCallOrMathematicalOperation,
                         items, WithoutOp)

\* one item was excluded, and one was retained in the 'with' group although
\* its second exprSources entry names a selected data source
C10_Witness ==
    /\ Flattened
    /\ "selectItems" \in DOMAIN TheFragment
    /\ \E i \in DOMAIN TheFragment.selectItems :
          NamesSelectedDataSource(TheFragment.selectItems[i])
    /\ \E i \in DOMAIN TheFragment.selectItems :
          LET item == TheFragment.selectItems[i]
          IN  /\ "exprSources" \in DOMAIN item
              /\ Len(item.exprSources) = 2
              /\ ~NamesSelectedDataSource(item)
              /\ \E k \in DOMAIN TheBundle.selectItems.withFunctionCallOrMathematicalOperation :
                    TheBundle.selectItems.withFunctionCallOrMathematicalOperation[k].id = item.id

----------------------------------------------------------------------------
(* Properties of the reconciler, checked under SpecReconcile *)

\* post_process has run against a bundle
Reconciled == pc = "done" /\ preprocessed_sql_analysis_results # <<>>

FirstBundle == preprocessed_sql_analysis_results[1]

IsStringList(j) == j.t = "array" /\ \A i \in DOMAIN j.v : j.v[i].t = "string"

HasResults(generate) ==
    /\ generate.replies # <<>>
    /\ generate.replies[1].text = "json"
    /\ generate.replies[1].value.t = "object"
    /\ "results" \in DOMAIN generate.replies[1].value.v

ResultsOf(generate) == generate.replies[1].value.v.results

SubLists == {"withFunctionCallOrMathematicalOperation", "withoutFunctionCallOrMathematicalOperation"}

\* the reply holds one list category with a list of explanation strings, or
\* selectItems with its two lists of explanation strings
IsListReply(generate) ==
    /\ HasResults(generate)
    /\ ResultsOf(generate).t = "object"
    /\ LET results == ResultsOf(generate).v
       IN  \/ /\ \E c \in {"groupByKeys", "relation", "sortings"} : DOMAIN results = {c}
              /\ \A c \in DOMAIN results : IsStringList(results[c])
           \/ /\ DOMAIN results = {"selectItems"}
              /\ results.selectItems.t = "object"
              /\ DOMAIN results.selectItems.v = SubLists
              /\ \A sub \in SubLists : IsStringList(results.selectItems.v[sub])

\* the first min(n, m) pairs (u_i, e_i)
Paired(category, units, explanations) ==
    [i \in 1 .. Min(Len(units), Len(explanations)) |->
        [category |-> category, id |-> units[i].id, rendered |-> units[i].values,
         explanation |-> explanations[i]]]

PairedWith(generate) ==
    LET results == ResultsOf(generate).v
    IN  IF "selectItems" \in DOMAIN results
        THEN Paired("selectItems",
                    FirstBundle.selectItems.withFunctionCallOrMathematicalOperation,
                    results.selectItems.v.withFunctionCallOrMathematicalOperation.v)
             \o Paired("selectItems",
                       FirstBundle.selectItems.withoutFunctionCallOrMathematicalOperation,
                       results.selectItems.v.withoutFunctionCallOrMathematicalOperation.v)
        ELSE LET c == CHOOSE c \in DOMAIN results : TRUE
             IN  Paired(c, FirstBundle[c], results[c].v)

\* the category, id, rendered value and explanation a record carries
Carried(record) ==
    [category |-> record.type,
     id |-> record.payload.id,
     rendered |-> IF record.type \in {"relation", "selectItems"}
                  THEN [k \in DOMAIN record.payload
                              \ {"id", "explanation", "isFunctionCallOrMathematicalOperation"}
                          |-> record.payload[k]]
                  ELSE record.payload.expression,
     explanation |-> record.payload.explanation]

\* C6: for the list categories (groupByKeys, sortings, relation, each
\* selectItems sub-list), reconciling n units u1..un against a reply list of m
\* explanations e1..em gives exactly min(n, m) records, the i-th carrying the
\* id and rendered value of u_i with explanation e_i, in that order; surplus
\* units or explanations are dropped.
C6_PositionalZip ==
    (Reconciled /\ \A i \in DOMAIN generate_sql_explanation :
                      IsListReply(generate_sql_explanation[i])) =>
        [k \in DOMAIN post_process |-> Carried(post_process[k])]
          = Flatten([i \in DOMAIN generate_sql_explanation |->
                        PairedWith(generate_sql_explanation[i])])

\* a reply with fewer explanations than units and one with more were both
\* reconciled
C6_Witness ==
    /\ Reconciled
    /\ \A i \in DOMAIN generate_sql_explanation : IsListReply(generate_sql_explanation[i])
    /\ \E i, j \in DOMAIN generate_sql_explanation :
          LET ri == ResultsOf(generate_sql_explanation[i]).v
              rj == ResultsOf(generate_sql_explanation[j]).v
          IN  /\ DOMAIN ri = {"groupByKeys"}
              /\ DOMAIN rj = {"groupByKeys"}
              /\ 0 < Len(ri.groupByKeys.v)
              /\ Len(ri.groupByKeys.v) < Len(FirstBundle.groupByKeys)
              /\ Len(rj.groupByKeys.v) > Len(FirstBundle.groupByKeys)
    /\ Len(post_process) >= 5

\* a value of the type the reply contract gives the category (filter may be
\* a single string)
HasContractType(key, value) ==
    IF key = "selectItems"
    THEN /\ value.t = "object"
         /\ DOMAIN value.v \subseteq SubLists
         /\ \A sub \in DOMAIN value.v : IsStringList(value.v[sub])
    ELSE IsStringList(value) \/ (key = "filter" /\ value.t = "string")

\* invalid JSON, missing `results`, or a wrong type
IsMalformed(generate) ==
    \/ ~HasResults(generate)
    \/ ResultsOf(generate).t # "object"
    \/ \E key \in DOMAIN ResultsOf(generate).v :
          ~HasContractType(key, ResultsOf(generate).v[key])

\* the records the replies 1..k-1 produce, each reconciled on its own
RecordsBefore(k) ==
    Flatten([j \in 1 .. (k - 1) |->
                PostProcessorRun(<<generate_sql_explanation[j]>>,
                                 preprocessed_sql_analysis_results)])

\* C7 as stated: when the k-th reply is the first malformed one (invalid
\* JSON, missing `results`, wrong type), the run returns exactly the records
\* of replies 1..k-1 and processes no later reply.
C7_MalformedReplyEndsRun ==
    Reconciled =>
        \A k \in DOMAIN generate_sql_explanation :
            (/\ IsMalformed(generate_sql_explanation[k])
             /\ \A j \in 1 .. (k - 1) : ~IsMalformed(generate_sql_explanation[j]))
            => post_process = RecordsBefore(k)

\* the first category, in the fixed order, that is non-empty in the bundle
\* and present and non-empty in the results
Matched(results) ==
    {k \in DOMAIN Categories :
        /\ BundleTruthy(FirstBundle, Categories[k])
        /\ Categories[k] \in DOMAIN results
        /\ Truthy(results[Categories[k]])
        /\ \A h \in 1 .. (k - 1) :
              ~(/\ BundleTruthy(FirstBundle, Categories[h])
                /\ Categories[h] \in DOMAIN results
                /\ Truthy(results[Categories[h]]))}

\* processing the reply raises: there is no reply text, it is not JSON, the
\* document has no `results`, `results` is not a mapping, or the value of the
\* matched category cannot be iterated (for selectItems: is not a mapping of
\* values that can be iterated)
RaisesOn(generate) ==
    \/ ~HasResults(generate)
    \/ /\ ResultsOf(generate).t # "object"
       /\ \E k \in DOMAIN Categories : BundleTruthy(FirstBundle, Categories[k])
    \/ /\ ResultsOf(generate).t = "object"
       /\ \E k \in Matched(ResultsOf(generate).v) :
             LET value == ResultsOf(generate).v[Categories[k]]
             IN  \/ /\ Categories[k] \in {"groupByKeys", "relation", "sortings"}
                    /\ value.t \notin {"array", "string"}
                 \/ /\ Categories[k] = "selectItems"
                    /\ \/ value.t # "object"
                       \/ \E sub \in DOMAIN value.v \cap SubLists :
                             value.v[sub].t \notin {"array", "string"}

\* C7 (amended): when the k-th reply is the first whose processing raises,
\* the run returns exactly the records of replies 1..k-1, in order, and
\* processes no later reply; when no reply raises, every reply is processed.
C7_RaisingReplyEndsRun ==
    Reconciled =>
        LET raising == {k \in DOMAIN generate_sql_explanation :
                           RaisesOn(generate_sql_explanation[k])}
            first == IF raising = {} THEN Len(generate_sql_explanation) + 1
                     ELSE CHOOSE k \in raising : \A h \in raising : k <= h
        IN  post_process = RecordsBefore(first)

\* the second of three replies raised, after a reply that gave records and
\* before a reply that would have given records
C7_Witness ==
    /\ Reconciled
    /\ Len(generate_sql_explanation) = 3
    /\ ~RaisesOn(generate_sql_explanation[1])
    /\ RaisesOn(generate_sql_explanation[2])
    /\ ~RaisesOn(generate_sql_explanation[3])
    /\ RecordsBefore(2) # <<>>
    /\ PostProcessorRun(<<generate_sql_explanation[3]>>, preprocessed_sql_analysis_results) # <<>>
    /\ post_process # <<>>

----------------------------------------------------------------------------
(* Properties of the request builder and the dispatcher, checked under Spec *)

\* C4: the failure of one language-model call does not abort the batch: no
\* exception leaves the pipeline, and when the run ends the reply of every
\* call that returned has been handed to the reconciler.
C4_FailedCallDoesNotAbortBatch ==
    /\ pc # "raised"
    /\ pc = "done" =>
          \A i \in DOMAIN tasks :
              tasks[i].state = "returned" => In(tasks[i].result, generate_sql_explanation)

\* the category holds a unit
HoldsUnit(bundle, key) ==
    IF key = "filter" THEN DOMAIN bundle.filter # {}
    ELSE IF key = "selectItems"
    THEN \/ bundle.selectItems.withFunctionCallOrMathematicalOperation # <<>>
         \/ bundle.selectItems.withoutFunctionCallOrMathematicalOperation # <<>>
    ELSE bundle[key] # <<>>

\* C5: the request builder emits exactly one request for each category of the
\* bundle that holds at least one unit (selectItems: in either sub-list) and
\* none for a category that holds no unit, in the order filter, groupByKeys,
\* relation, selectItems, sortings.
C5_OneRequestPerNonEmptyCategory ==
    (pc \notin {"preprocess", "prompts"} /\ Len(preprocessed_sql_analysis_results) = 1) =>
        [i \in DOMAIN prompts |-> prompts[i].sql_analysis_type]
          = SelectSeq(Categories, LAMBDA key : HoldsUnit(preprocessed_sql_analysis_results[1], key))

\* C8: the dispatcher issues at most one call per non-empty category of the
\* first bundle only, so a batch never has more calls than the 5 categories,
\* whatever the list of fragments.
C8_AtMostOneCallPerCategory == Len(tasks) <= Len(Categories)

\* C11: the collection the dispatcher returns holds the replies in the order
\* in which the requests were submitted, whatever the order in which the calls
\* completed: the i-th reply returned is the reply to the i-th request.
C11_RepliesInSubmissionOrder ==
    gather = "returned" =>
        /\ Len(generate_sql_explanation) = Len(prompts)
        /\ \A i \in DOMAIN prompts : generate_sql_explanation[i] = AnswerTo(prompts[i])

\* C14: cancelling the batch while calls are in flight cancels every call
\* still outstanding, and a cancelled batch yields no explanation record: the
\* reconciler never runs on the replies that had already come back.
C14_CancelledBatchYieldsNothing ==
    pc = "cancelled" =>
        /\ \A i \in DOMAIN tasks : tasks[i].state # "pending"
        /\ generate_sql_explanation = <<>>
        /\ post_process = <<>>

\* the batch was cancelled after one call had returned and while another was
\* in flight
C14_Witness ==
    /\ pc = "cancelled"
    /\ \E i, j \in DOMAIN tasks :
          tasks[i].state = "returned" /\ tasks[j].state = "cancelled"

\* C17: the reconciler starts only after every call of the batch has settled:
\* in no state is post_process about to run, or done, while a call of the batch
\* is still outstanding.
C17_ReconcilerAfterAllSettled ==
    pc \in {"post_process", "done"} =>
        /\ Len(tasks) = Len(prompts)
        /\ \A i \in DOMAIN tasks : tasks[i].state # "pending"

\* post_process has run on a batch of calls that returned in another order
\* than they were submitted
C17_Witness ==
    /\ pc = "done"
    /\ Len(tasks) >= 2
    /\ \E i, j \in DOMAIN tasks : i < j /\ tasks[j].order < tasks[i].order
    /\ post_process # <<>>

\* the second call returned before the first one, their replies differ, and
\* gather has returned
C11_Witness ==
    /\ gather = "returned"
    /\ Len(tasks) >= 2
    /\ tasks[2].order < tasks[1].order
    /\ AnswerTo(prompts[1]) # AnswerTo(prompts[2])

----------------------------------------------------------------------------
(* Further properties of the result reconciler, checked under SpecReconcile *)

\* the reply has parsed to a mapping with a `results` mapping that holds a
\* non-empty value for the category
Carries(generate, key) ==
    /\ HasResults(generate)
    /\ ResultsOf(generate).t = "object"
    /\ key \in DOMAIN ResultsOf(generate).v
    /\ Truthy(ResultsOf(generate).v[key])

\* the first element of a list, the whole value when it is a string, the
\* empty string otherwise
FilterExplanation(value) ==
    IF value.t = "array" THEN value.v[1]
    ELSE IF value.t = "string" THEN value
    ELSE JStr(<<>>)

\* C12: when the bundle has its filter unit and a reply carries a non-empty
\* `filter` value, the reply gives exactly one record, of type filter, with
\* the unit's id, the unit's rendered expression, and as explanation the first
\* element of the reply's list, or the whole value when it is a single string,
\* or the empty string otherwise.
C12_FilterRecord ==
    (/\ Reconciled
     /\ DOMAIN FirstBundle.filter # {}
     /\ \A k \in DOMAIN generate_sql_explanation :
            Carries(generate_sql_explanation[k], "filter")) =>
        post_process =
            [k \in DOMAIN generate_sql_explanation |->
                [type |-> "filter",
                 payload |-> [id |-> FirstBundle.filter.id,
                              expression |-> FirstBundle.filter.values,
                              explanation |->
                                  FilterExplanation(
                                      ResultsOf(generate_sql_explanation[k]).v.filter)]]]

\* a list of two explanations, a single string and a number were reconciled
\* as the filter's explanation
C12_Witness ==
    /\ Reconciled
    /\ DOMAIN FirstBundle.filter # {}
    /\ Len(generate_sql_explanation) = 3
    /\ \A k \in DOMAIN generate_sql_explanation :
           Carries(generate_sql_explanation[k], "filter")
    /\ {ResultsOf(generate_sql_explanation[k]).v.filter.t : k \in 1 .. 3}
          = {"array", "string", "number"}
    /\ \E k \in 1 .. 3 :
          /\ ResultsOf(generate_sql_explanation[k]).v.filter.t = "array"
          /\ Len(ResultsOf(generate_sql_explanation[k]).v.filter.v) = 2
    /\ Len(post_process) = 3

\* the first category, in the fixed order, of which the bundle holds a unit
\* and the reply carries a non-empty value: a set with that category, or empty
FirstHeld(generate) ==
    {Categories[k] : k \in
        {k \in DOMAIN Categories :
            /\ HoldsUnit(FirstBundle, Categories[k])
            /\ Carries(generate, Categories[k])
            /\ \A h \in 1 .. (k - 1) :
                  ~(HoldsUnit(FirstBundle, Categories[h]) /\ Carries(generate, Categories[h]))}}

\* C15: each reply contributes records of at most one category, the first in
\* the order filter, groupByKeys, relation, selectItems, sortings that is
\* non-empty in the bundle and present and non-empty in the parsed reply; the
\* other categories of the reply are ignored and a reply that matches no
\* category contributes no record.
C15_FirstCategoryOnly ==
    Reconciled =>
        \A r \in DOMAIN post_process :
            \E k \in DOMAIN generate_sql_explanation :
                post_process[r].type \in FirstHeld(generate_sql_explanation[k])

\* a single reply that carries two categories the bundle holds gave the
\* records of the first one only
C15_Witness ==
    /\ Reconciled
    /\ Len(generate_sql_explanation) = 1
    /\ Carries(generate_sql_explanation[1], "filter")
    /\ Carries(generate_sql_explanation[1], "sortings")
    /\ HoldsUnit(FirstBundle, "filter")
    /\ HoldsUnit(FirstBundle, "sortings")
    /\ Len(post_process) = 1
    /\ post_process[1].type = "filter"

\* the reply is a selectItems reply: of the categories of its results,
\* selectItems is the first, with one or both sub-lists of explanation strings
IsSelectItemsReply(generate) ==
    /\ Carries(generate, "selectItems")
    /\ DOMAIN ResultsOf(generate).v \cap {"filter", "groupByKeys", "relation"} = {}
    /\ ResultsOf(generate).v.selectItems.t = "object"
    /\ DOMAIN ResultsOf(generate).v.selectItems.v \subseteq SubLists
    /\ \A sub \in DOMAIN ResultsOf(generate).v.selectItems.v :
          IsStringList(ResultsOf(generate).v.selectItems.v[sub])

\* the explanations the reply gives for a sub-list
SubListOf(generate, sub) ==
    IF sub \in DOMAIN ResultsOf(generate).v.selectItems.v
    THEN ResultsOf(generate).v.selectItems.v[sub].v
    ELSE <<>>

\* units and explanations of one sub-list paired by position, with the tag
Tagged(units, explanations, tag) ==
    [i \in 1 .. Min(Len(units), Len(explanations)) |->
        [id |-> units[i].id, explanation |-> explanations[i], tag |-> tag]]

\* C16: a selectItems reply gives all the records of the sub-list 'with
\* function call or mathematical operation' and then all the records of the
\* sub-list 'without'; the former have isFunctionCallOrMathematicalOperation
\* true and the latter false, and each sub-list is paired by position on its
\* own, whatever the length of the other.
C16_SelectItemsTwoZips ==
    (Reconciled /\ \A k \in DOMAIN generate_sql_explanation :
                      IsSelectItemsReply(generate_sql_explanation[k])) =>
        [r \in DOMAIN post_process |->
            [id |-> post_process[r].payload.id,
             explanation |-> post_process[r].payload.explanation,
             tag |-> post_process[r].payload.isFunctionCallOrMathematicalOperation]]
          = Flatten([k \in DOMAIN generate_sql_explanation |->
                Tagged(FirstBundle.selectItems.withFunctionCallOrMathematicalOperation,
                       SubListOf(generate_sql_explanation[k],
                                 "withFunctionCallOrMathematicalOperation"), TRUE)
                \o Tagged(FirstBundle.selectItems.withoutFunctionCallOrMathematicalOperation,
                          SubListOf(generate_sql_explanation[k],
                                    "withoutFunctionCallOrMathematicalOperation"), FALSE)])

\* one reply with 1 and 2 explanations for a bundle with 2 and 1 select
\* units gave a record of each sub-list
C16_Witness ==
    /\ Reconciled
    /\ Len(generate_sql_explanation) = 1
    /\ IsSelectItemsReply(generate_sql_explanation[1])
    /\ Len(FirstBundle.selectItems.withFunctionCallOrMathematicalOperation) = 2
    /\ Len(FirstBundle.selectItems.withoutFunctionCallOrMathematicalOperation) = 1
    /\ Len(SubListOf(generate_sql_explanation[1], "withFunctionCallOrMathematicalOperation")) = 1
    /\ Len(SubListOf(generate_sql_explanation[1], "withoutFunctionCallOrMathematicalOperation")) = 2
    /\ Len(post_process) = 2
    /\ post_process[1].payload.isFunctionCallOrMathematicalOperation
    /\ ~post_process[2].payload.isFunctionCallOrMathematicalOperation

\* the number of units of the bundle
UnitCount(bundle) ==
    (IF DOMAIN bundle.filter # {} THEN 1 ELSE 0)
    + Len(bundle.groupByKeys) + Len(bundle.relation)
    + Len(bundle.selectItems.withFunctionCallOrMathematicalOperation)
    + Len(bundle.selectItems.withoutFunctionCallOrMathematicalOperation)
    + Len(bundle.sortings)

\* C18: after any sequence of replies that parsed has been reconciled against
\* one bundle, each unit of the bundle is in at most one record, so there are
\* no more records than units, even when two replies carry a non-empty value
\* for the same category.
C18_EachUnitInAtMostOneRecord ==
    (Reconciled /\ \A k \in DOMAIN generate_sql_explanation :
                      HasResults(generate_sql_explanation[k])) =>
        /\ Len(post_process) <= UnitCount(FirstBundle)
        /\ \A r, q \in DOMAIN post_process :
              (/\ post_process[r].type = post_process[q].type
               /\ post_process[r].payload.id = post_process[q].payload.id) => r = q

----------------------------------------------------------------------------
(* Further properties of the composer, checked under SpecFlatten *)

\* the fragments not flagged as subquery or CTE, in input order
Eligible ==
    SelectSeq(sql_analysis_results,
              LAMBDA fragment : ~("isSubqueryOrCte" \in DOMAIN fragment
                                  /\ fragment.isSubqueryOrCte))

\* the empty shape of a category: empty mapping, two empty sub-lists, empty list
EmptyShape(key) ==
    IF key = "filter" THEN EmptyDict
    ELSE IF key = "selectItems"
    THEN [withFunctionCallOrMathematicalOperation |-> <<>>,
          withoutFunctionCallOrMathematicalOperation |-> <<>>]
    ELSE <<>>

\* C13: the composer returns one bundle for each fragment not flagged
\* isSubqueryOrCte and none for a flagged one, in input order; every bundle
\* has the five keys filter, groupByKeys, relation, selectItems, sortings, and
\* a key absent from the fragment has its empty shape in the bundle (a filter
\* or sortings key the fragment has gives its unit or units, which tells the
\* bundles of different fragments apart).
C13_UniformBundles ==
    pc # "preprocess" =>
        /\ Len(preprocessed_sql_analysis_results) = Len(Eligible)
        /\ \A i \in DOMAIN preprocessed_sql_analysis_results :
              LET bundle == preprocessed_sql_analysis_results[i]
                  fragment == Eligible[i]
              IN  /\ DOMAIN bundle = {Categories[k] : k \in DOMAIN Categories}
                  /\ \A key \in DOMAIN bundle :
                        IF key \in DOMAIN fragment
                        THEN /\ key = "filter" => DOMAIN bundle.filter = {"values", "id"}
                             /\ key = "sortings" =>
                                    Len(bundle.sortings) = Len(fragment.sortings)
                        ELSE bundle[key] = EmptyShape(key)

\* three fragments, the second one flagged, the first and the third with
\* different keys, gave two bundles
C13_Witness ==
    /\ pc # "preprocess"
    /\ Len(sql_analysis_results) = 3
    /\ "isSubqueryOrCte" \in DOMAIN sql_analysis_results[2]
    /\ sql_analysis_results[2].isSubqueryOrCte
    /\ Len(Eligible) = 2
    /\ DOMAIN Eligible[1] # DOMAIN Eligible[2]
    /\ Len(preprocessed_sql_analysis_results) = 2

====
